---- MODULE Spec2Model ----
(***************************************************************************)
(* Model of the motion-labs preview engine.                                *)
(*                                                                         *)
(*   Part I   HistoryManager (src/utils/history.ts, lines 10-72): the      *)
(*            snapshot undo/redo stacks with a serialized fingerprint.     *)
(*   Part II  VideoPreview sync effect (src/utils/history.ts, lines        *)
(*            133-257): time sync, play/pause, audio routes, volume.       *)
(*            Times are in 1/100 s, volumes and thresholds in 1/100,       *)
(*            levels written to a gain or a handle in 1/10000.             *)
(*   Part III VideoPreview pointer gestures (src/utils/history.ts, lines   *)
(*            260-399): drag and resize of the selected element.           *)
(*            Positions and sizes are in 1/1000 of a percent of the        *)
(*            container, pointer coordinates in pixels.                    *)
(*   Part IV  renderVisualElement (src/utils/history.ts, lines 402-496):   *)
(*            the opacity and the transform of the transitions.  Opacity,  *)
(*            progress and scale factors are in 1/10000, translations in   *)
(*            1/100 of a percent.                                          *)
(*   Part V   the project store (src/unnamed/part_000, lines 111-157):     *)
(*            saveProjectState and loadProjectState over IndexedDB.        *)
(*            Strings that are inspected are sequences of characters.      *)
(*                                                                         *)
(* Specifications                                                          *)
(*   Spec       any sequence of push / undo / redo / clear calls with any  *)
(*              arguments, plus runs of pushes of pairwise distinct states *)
(*   SpecUsage  the documented caller: push(current) before every change,  *)
(*              the result of undo/redo adopted as the current state       *)
(*   SpecSync   ticks of the VideoPreview sync effect over the media        *)
(*              handles of the document                                    *)
(*   SpecFilter the same ticks, over element lists that vary the filter    *)
(*              frequencies of a clip                                      *)
(*   SpecGesture pointer-down / move / up events on an element and on its  *)
(*              resize handles                                             *)
(*   SpecRender renders of a visual element with any pair of transitions   *)
(*              at times around and inside its window                      *)
(*   SpecStore  saveProjectState / loadProjectState calls on the project   *)
(*              store, their requests served in the order they were made   *)
(***************************************************************************)
EXTENDS Integers, Sequences, FiniteSets, TLC

(***************************************************************************)
(* Program constants and bounds of the exploration.                        *)
(***************************************************************************)
\* const MAX_HISTORY_SIZE = 50;
MAX_HISTORY_SIZE == 50

\* calls made on the manager in one behaviour of Spec
MaxSteps == 4
\* caller operations in one behaviour of SpecUsage
MaxUsageSteps == 5
\* runs of the sync effect in one behaviour of SpecSync
MaxTicks == 2
\* a run of pushes has between MAX_HISTORY_SIZE and MAX_HISTORY_SIZE + MaxExtra
\* states
MaxExtra == 1
\* pointer-down events in one behaviour of SpecGesture
MaxGestures == 1
\* saveProjectState / loadProjectState calls in one behaviour of SpecStore
MaxStoreCalls == 3

VARIABLES
    undoStack,       \* HistoryManager.undoStack, oldest first
    redoStack,       \* HistoryManager.redoStack
    lastSavedState,  \* HistoryManager.lastSavedState, a serialization or ''
    call,            \* the last call made: its name, argument and return value
    prevCall,        \* the call before it
    pre,             \* the manager's fields before the last call
    pre2,            \* the manager's fields before the call before it
    steps,           \* calls made so far
    nextId,          \* the next state no one has seen yet (runs of pushes)
    current,         \* the caller's current state (SpecUsage)
    changes,         \* the states the caller had before each change that is
                     \* not undone, oldest first (SpecUsage)
    expected,        \* the state the last successful undo had to return
    elements,        \* the elements prop of VideoPreview
    handles,         \* the <video>/<audio> nodes of the document, by position
    env,             \* what the browser gives: whether a handle can be
                     \* wrapped as a source, whether AudioContext exists
    audioContext,    \* audioContextRef.current
    audioSources,    \* audioSourcesRef.current: the handles that have a source
    audioNodes,      \* audioNodesRef.current: element id -> {hp, lp, gain}
    tick,            \* the inputs of the last run of the effect, and their count
    did,             \* what the last run did to each handle
    attempts,        \* createMediaElementSource calls made so far, per handle
    before,          \* handles, sources, nodes and attempts before the last run
    isDragging,      \* useState(false)
    dragOffset,      \* useState({ x: 0, y: 0 })
    isResizing,      \* useState(false)
    resizeHandle,    \* useState(null): the compass code of the handle held
    initialElementState,  \* useState(null): { x, y, w, h, r } at pointer-down
    startMousePos,   \* useState({ x: 0, y: 0 })
    selectedElementId,    \* the selectedElementId prop
    box,             \* the element on the canvas, as the parent holds it
    emitted,         \* the onUpdateElement call of the last event, if any
    pointer,         \* the last pointer event: its type and position, with
                     \* the pointer-down it follows and the moves since
    gestures,        \* pointer-down events so far
    clip,            \* the element renderVisualElement is called with
    shownAt,         \* the currentTime of the last render, if any
    rendered,        \* what the last render returned
    db,              \* the ReactFrameDB database: its object store names and
                     \* the records of project_state
    opening,         \* the calls waiting for initDB(), oldest first
    transactions,    \* the transactions waiting for their request, oldest first
    outcome,         \* the call that completed last, and what it resolved to
    latest,          \* the arguments of the most recent saveProjectState call
    clock,           \* Date.now()
    storeCalls       \* calls made so far

mgrVars  == <<undoStack, redoStack, lastSavedState>>
histVars == <<undoStack, redoStack, lastSavedState, call, prevCall, pre, pre2,
              steps, nextId, current, changes, expected>>
syncVars == <<elements, handles, env, audioContext, audioSources, audioNodes,
              tick, did, attempts, before>>
gestureVars == <<isDragging, dragOffset, isResizing, resizeHandle,
                 initialElementState, startMousePos, selectedElementId, box,
                 emitted, pointer, gestures>>
renderVars == <<clip, shownAt, rendered>>
storeVars == <<db, opening, transactions, outcome, latest, clock, storeCalls>>
vars == <<histVars, syncVars, gestureVars, renderVars, storeVars>>

(***************************************************************************)
(* Values.                                                                 *)
(***************************************************************************)
\* HistoryState { elements, tracks, markers }: each field stands for the
\* content of the list, a number per distinct content.
HistoryState(e, t, m) == [elements |-> e, tracks |-> t, markers |-> m]

\* the value null, and the result of a void method
Null == [null |-> TRUE]
Void == [void |-> TRUE]

\* the states calls are made with: two that differ in elements, one that
\* differs from the first in markers only
ArgStates == {HistoryState(0, 0, 0), HistoryState(1, 0, 0), HistoryState(0, 0, 1)}

\* the i-th state of a run of pairwise distinct states, distinct from ArgStates
FreshState(i) == HistoryState(i + 2, 0, 0)

\* JSON.stringify(state): the fields in declaration order, as text
Stringify(state) == <<"{", state.elements, state.tracks, state.markers, "}">>

\* JSON.parse(str)
Parse(str) == [elements |-> str[2], tracks |-> str[3], markers |-> str[4]]

\* the initial value of lastSavedState, ''
EmptyString == <<>>

Front(s) == SubSeq(s, 1, Len(s) - 1)
Last(s) == s[Len(s)]

(***************************************************************************)
(* HistoryManager.  m is the manager: [undoStack, redoStack,               *)
(* lastSavedState].  Each method is the function from the manager before   *)
(* the call to the manager after it (and the value returned).              *)
(***************************************************************************)
Manager == [undoStack |-> undoStack, redoStack |-> redoStack,
            lastSavedState |-> lastSavedState]

\* new HistoryManager()
NewManager == [undoStack |-> <<>>, redoStack |-> <<>>, lastSavedState |-> EmptyString]

\* push, without the comparison with lastSavedState
push_NoDedup(m, state) ==
    LET stateStr == Stringify(state)
        pushed == Append(m.undoStack, Parse(stateStr))
    IN [undoStack |-> IF Len(pushed) > MAX_HISTORY_SIZE THEN Tail(pushed) ELSE pushed,
        redoStack |-> <<>>,
        lastSavedState |-> stateStr]

\* push, without the limit on the stack size
push_NoLimit(m, state) ==
    LET stateStr == Stringify(state)
    IN IF stateStr = m.lastSavedState
       THEN m
       ELSE [undoStack |-> Append(m.undoStack, Parse(stateStr)),
             redoStack |-> <<>>,
             lastSavedState |-> stateStr]

\* push, dropping the newest entry instead of the oldest when over the limit
push_DropNewest(m, state) ==
    LET stateStr == Stringify(state)
        pushed == Append(m.undoStack, Parse(stateStr))
    IN IF stateStr = m.lastSavedState
       THEN m
       ELSE [undoStack |-> IF Len(pushed) > MAX_HISTORY_SIZE THEN Front(pushed) ELSE pushed,
             redoStack |-> <<>>,
             lastSavedState |-> stateStr]

\* push(state)
push(m, state) ==
    LET stateStr == Stringify(state)
        pushed == Append(m.undoStack, Parse(stateStr))
    IN IF stateStr = m.lastSavedState
       THEN m
       ELSE [undoStack |-> IF Len(pushed) > MAX_HISTORY_SIZE THEN Tail(pushed) ELSE pushed,
             redoStack |-> <<>>,
             lastSavedState |-> stateStr]

\* undo, refusing when one snapshot is left
undo_OffByOne(m, currentState) ==
    IF Len(m.undoStack) <= 1
    THEN [m |-> m, ret |-> Null]
    ELSE LET previousState == Last(m.undoStack)
         IN [m |-> [undoStack |-> Front(m.undoStack),
                    redoStack |-> Append(m.redoStack, Parse(Stringify(currentState))),
                    lastSavedState |-> Stringify(previousState)],
             ret |-> previousState]

\* undo(currentState): the manager after the call and the value returned
undo(m, currentState) ==
    IF Len(m.undoStack) = 0
    THEN [m |-> m, ret |-> Null]
    ELSE LET previousState == Last(m.undoStack)
         IN [m |-> [undoStack |-> Front(m.undoStack),
                    redoStack |-> Append(m.redoStack, Parse(Stringify(currentState))),
                    lastSavedState |-> Stringify(previousState)],
             ret |-> previousState]

\* redo, without saving currentState on the undo stack
redo_NoSave(m, currentState) ==
    IF Len(m.redoStack) = 0
    THEN [m |-> m, ret |-> Null]
    ELSE LET nextState == Last(m.redoStack)
         IN [m |-> [undoStack |-> m.undoStack,
                    redoStack |-> Front(m.redoStack),
                    lastSavedState |-> Stringify(nextState)],
             ret |-> nextState]

\* redo(currentState)
redo(m, currentState) ==
    IF Len(m.redoStack) = 0
    THEN [m |-> m, ret |-> Null]
    ELSE LET nextState == Last(m.redoStack)
         IN [m |-> [undoStack |-> Append(m.undoStack, Parse(Stringify(currentState))),
                    redoStack |-> Front(m.redoStack),
                    lastSavedState |-> Stringify(nextState)],
             ret |-> nextState]

canUndo(m) == Len(m.undoStack) > 0

canRedo(m) == Len(m.redoStack) > 0

\* clear, leaving the fingerprint as it is
clear_KeepFingerprint(m) ==
    [undoStack |-> <<>>, redoStack |-> <<>>, lastSavedState |-> m.lastSavedState]

\* clear()
clear(m) == [undoStack |-> <<>>, redoStack |-> <<>>, lastSavedState |-> EmptyString]

\* the states from .. from + n - 1 of the run of fresh states, in order
RunStates(from, n) == [i \in 1..n |-> FreshState(from + i - 1)]

\* for (i = lo; i <= hi; i++) historyManager.push(states[i]): the pushes of
\* the first half of the range, then those of the second half
RECURSIVE pushRange(_, _, _, _)
pushRange(m, states, lo, hi) ==
    IF lo > hi THEN m
    ELSE IF lo = hi THEN push(m, states[lo])
    ELSE LET mid == (lo + hi) \div 2
             half == pushRange(m, states, lo, mid)
         IN \* the test makes TLC compute half before it goes on: it keeps
            \* the evaluation shallow and changes no value
            IF half.undoStack = half.undoStack
            THEN pushRange(half, states, mid + 1, hi)
            ELSE m

\* for (const s of states) historyManager.push(s)
pushAll(m, states) == pushRange(m, states, 1, Len(states))

\* n times: r = historyManager.undo(cur); if (r) cur = r  -- the caller steps
\* back through the history; it stops at the first null
RECURSIVE undoAll(_, _, _)
undoAll(m, cur, n) ==
    IF n = 0 THEN [m |-> m, ret |-> cur]
    ELSE LET r == undo(m, cur)
         IN IF r.ret = Null THEN [m |-> r.m, ret |-> cur]
            ELSE undoAll(r.m, r.ret, n - 1)

\* n times: r = historyManager.redo(cur); if (r) cur = r
RECURSIVE redoAll(_, _, _)
redoAll(m, cur, n) ==
    IF n = 0 THEN [m |-> m, ret |-> cur]
    ELSE LET r == redo(m, cur)
         IN IF r.ret = Null THEN [m |-> r.m, ret |-> cur]
            ELSE redoAll(r.m, r.ret, n - 1)

(***************************************************************************)
(* VideoPreview sync effect: values.                                       *)
(***************************************************************************)
\* an optional property: undefined, or a value
Undefined == <<>>
Some(x) == <<x>>

\* x ?? d
Coalesce(x, d) == IF x = Undefined THEN d ELSE x[1]

\* x || d, for a number
OrElse(x, d) == IF x = Undefined \/ x[1] = 0 THEN d ELSE x[1]

\* if (x), for a boolean
Truthy(x) == x # Undefined /\ x[1] = TRUE

Abs(x) == IF x < 0 THEN -x ELSE x

\* Math.abs(el.currentTime - targetTime) > 0.3
HYSTERESIS == 30
\* element.props.volume ?? 1
DEFAULT_VOLUME == 100
\* activeDuckingSource.props.duckingThreshold ?? 0.2
DEFAULT_DUCKING_THRESHOLD == 20
\* element.props.highPassFrequency || 0
DEFAULT_HIGH_PASS == 0
\* element.props.lowPassFrequency || 20000
DEFAULT_LOW_PASS == 20000
\* element.props.playbackRate ?? 1
DEFAULT_PLAYBACK_RATE == 100
\* the frequency of a new BiquadFilterNode, in Hz
NEW_FILTER_FREQUENCY == 350
\* the gain of a new GainNode, and the volume of a new media element: 1
FULL_LEVEL == 10000

Props(volume, isMuted, ducking, duckingThreshold) ==
    [volume |-> volume, isMuted |-> isMuted, playbackRate |-> Undefined,
     highPassFrequency |-> Undefined, lowPassFrequency |-> Undefined,
     ducking |-> ducking, duckingThreshold |-> duckingThreshold]

Element(id, type, startTime, duration, mediaOffset, props) ==
    [id |-> id, type |-> type, startTime |-> startTime, duration |-> duration,
     mediaOffset |-> mediaOffset, props |-> props]

\* the result of elements.find when nothing matches
NoElement == [undefined |-> TRUE]

\* audioContextRef.current = null, audioNodesRef.current.get(id) = undefined
NoContext == [null |-> TRUE]
NoNodes == [undefined |-> TRUE]

\* the element lists of the model: an audio clip a over [0, 2 s], a muted
\* video clip b over [1 s, 2 s] that starts 0.5 s into its media, an image c,
\* an audio clip d over [0.7 s, 2 s] that has no media node (no src)
ElementList(volumeA, duckingB) ==
    << Element("a", "audio", 0, 200, 0,
               Props(volumeA, Undefined, Some(TRUE), Some(50))),
       Element("b", "video", 100, 100, 50,
               Props(Some(80), Some(TRUE), duckingB, Undefined)),
       Element("c", "image", 0, 300, 0,
               Props(Undefined, Undefined, Some(TRUE), Undefined)),
       Element("d", "audio", 70, 130, 0,
               Props(Undefined, Some(FALSE), Some(TRUE), Some(30))) >>

ElementLists ==
    {ElementList(volumeA, duckingB) :
        volumeA \in {Undefined, Some(50)}, duckingB \in {Undefined, Some(TRUE)}}

\* the media nodes, in document order; the third carries an id of no element
Handles == 1..3
HandleOrder == <<1, 2, 3>>
ElementIdOf(h) == CASE h = 1 -> "a" [] h = 2 -> "b" [] OTHER -> "zz"
Ids == {"a", "b", "c", "d", "zz"}

\* a new <video>/<audio> node
NewHandle(h) ==
    [elementId |-> ElementIdOf(h), currentTime |-> 0, paused |-> TRUE,
     playbackRate |-> DEFAULT_PLAYBACK_RATE, volume |-> FULL_LEVEL, muted |-> FALSE]

\* the times the effect runs at: the ends of the windows, one step outside
\* them, and the distances HYSTERESIS and HYSTERESIS + 1 from a target
Times == {0, 30, 31, 69, 70, 100, 200, 201}

(***************************************************************************)
(* VideoPreview sync effect: one run.                                      *)
(***************************************************************************)
\* array.find(p), given the set I of the positions whose entry satisfies p:
\* the first such entry, undefined if there is none
Find(els, I) ==
    IF I = {} THEN NoElement
    ELSE els[CHOOSE i \in I : \A j \in I : i <= j]

\* elements.find(e => e.id === id)
FindById(els, id) == Find(els, {i \in 1..Len(els) : els[i].id = id})

\* the window test, with the end of the window left out
InWindow_EndExclusive(e, t) ==
    t >= e.startTime /\ t < e.startTime + e.duration

\* currentTime >= e.startTime && currentTime <= e.startTime + e.duration
InWindow(e, t) ==
    t >= e.startTime /\ t <= e.startTime + e.duration

\* the seek test, seeking at the threshold too
NeedsSeek_AtThreshold(currentTime, targetTime) ==
    Abs(currentTime - targetTime) >= HYSTERESIS

\* Math.abs(el.currentTime - targetTime) > 0.3
NeedsSeek(currentTime, targetTime) ==
    Abs(currentTime - targetTime) > HYSTERESIS

\* (currentTime - element.startTime) + element.mediaOffset
TargetTime(element, t) == (t - element.startTime) + element.mediaOffset

\* the ducking source, whatever its kind
ActiveDuckingSource_AnyKind(element, els, t) ==
    Find(els, {i \in 1..Len(els) : /\ els[i].id # element.id
                                   /\ Truthy(els[i].props.ducking)
                                   /\ InWindow(els[i], t)})

\* the ducking source, taking the last match of the list
ActiveDuckingSource_Last(element, els, t) ==
    LET I == {i \in 1..Len(els) : /\ els[i].id # element.id
                                  /\ els[i].type \in {"video", "audio"}
                                  /\ Truthy(els[i].props.ducking)
                                  /\ InWindow(els[i], t)}
    IN IF I = {} THEN NoElement
       ELSE els[CHOOSE i \in I : \A j \in I : i >= j]

\* elements.find(e => e.id !== element.id && (video || audio) &&
\*                    e.props.ducking && active at currentTime)
ActiveDuckingSource(element, els, t) ==
    Find(els, {i \in 1..Len(els) : /\ els[i].id # element.id
                                   /\ els[i].type \in {"video", "audio"}
                                   /\ Truthy(els[i].props.ducking)
                                   /\ InWindow(els[i], t)})

\* effectiveVolume *= (activeDuckingSource.props.duckingThreshold ?? 0.2)
Ducked(level, element, els, t) ==
    LET activeDuckingSource == ActiveDuckingSource(element, els, t)
    IN IF activeDuckingSource = NoElement
       THEN level
       ELSE (level * Coalesce(activeDuckingSource.props.duckingThreshold,
                              DEFAULT_DUCKING_THRESHOLD)) \div 100

\* the level written to the gain node (lines 210-230)
GraphVolume(element, els, t) ==
    LET effectiveVolume == IF Truthy(element.props.isMuted)
                           THEN 0
                           ELSE Coalesce(element.props.volume, DEFAULT_VOLUME) * 100
    IN Ducked(effectiveVolume, element, els, t)

\* the fallback level, without the ducking
FallbackVolume_NoDucking(element, els, t) ==
    Coalesce(element.props.volume, DEFAULT_VOLUME) * 100

\* the level written to el.volume when there is no audio context (234-245)
FallbackVolume(element, els, t) ==
    Ducked(Coalesce(element.props.volume, DEFAULT_VOLUME) * 100, element, els, t)

\* hp, lp and gain as createBiquadFilter / createGain make them, chained
\* source -> hp -> lp -> gain -> destination
NewNodes(h) ==
    [source |-> h, hp |-> NEW_FILTER_FREQUENCY, lp |-> NEW_FILTER_FREQUENCY,
     gain |-> FULL_LEVEL,
     chain |-> <<"source", "hp", "lp", "gain", "destination">>]

\* play whenever the flag is set
ShouldPlay_Always(isPlaying, paused) == isPlaying

\* isPlaying && el.paused
ShouldPlay(isPlaying, paused) == isPlaying /\ paused

\* !isPlaying && !el.paused
ShouldPause(isPlaying, paused) == ~isPlaying /\ ~paused

\* the lookup of the source, finding none ever
HasSource_Never(sources, h) == FALSE

\* audioSourcesRef.current.get(el) is defined
HasSource(sources, h) == h \in sources

\* st: [handles, audioSources, audioNodes, did, attempts] while the effect
\* runs.  The effect's work on the media node h (the body of forEach).
SyncHandle(st, h, t, isPlaying, ctx, els) ==
    LET el == st.handles[h]
        id == el.elementId
        element == FindById(els, id)
    IN
    IF element = NoElement THEN st
    ELSE IF InWindow(element, t) THEN
        LET targetTime == TargetTime(element, t)
            seek == NeedsSeek(el.currentTime, targetTime)
            play == ShouldPlay(isPlaying, el.paused)
            pause == ~play /\ ShouldPause(isPlaying, el.paused)
            \* Audio Effects Setup
            source == HasSource(st.audioSources, h)
            create == ctx # NoContext /\ ~source
            \* createMediaElementSource returns, and so does the rest of try
            sourced == create /\ env.routable[h]
            created == sourced /\ env.chainable[h]
            sources1 == IF sourced THEN st.audioSources \cup {h} ELSE st.audioSources
            nodes0 == IF created
                      THEN [st.audioNodes EXCEPT ![id] = NewNodes(h)]
                      ELSE st.audioNodes
            nodes == nodes0[id]
            update == ctx # NoContext /\ nodes # NoNodes
            hpFreq == OrElse(element.props.highPassFrequency, DEFAULT_HIGH_PASS)
            lpFreq == OrElse(element.props.lowPassFrequency, DEFAULT_LOW_PASS)
            nodes1 == IF update
                      THEN [nodes0 EXCEPT ![id] =
                               [nodes EXCEPT !.hp = hpFreq, !.lp = lpFreq,
                                             !.gain = GraphVolume(element, els, t)]]
                      ELSE nodes0
            fallback == ctx = NoContext
            el1 == [el EXCEPT
                      !.currentTime = IF seek THEN targetTime ELSE @,
                      !.paused = IF play THEN FALSE ELSE IF pause THEN TRUE ELSE @,
                      !.volume = IF fallback THEN FallbackVolume(element, els, t) ELSE @,
                      !.muted = IF fallback THEN Coalesce(element.props.isMuted, FALSE) ELSE @,
                      !.playbackRate = Coalesce(element.props.playbackRate,
                                                DEFAULT_PLAYBACK_RATE)]
            done == {"active", "setRate"}
                    \cup (IF seek THEN {"seek"} ELSE {})
                    \cup (IF play THEN {"play"} ELSE {})
                    \cup (IF pause THEN {"pause"} ELSE {})
                    \cup (IF create THEN {"createSource"} ELSE {})
                    \cup (IF create /\ ~created THEN {"createFailed"} ELSE {})
                    \cup (IF created THEN {"route"} ELSE {})
                    \cup (IF update /\ nodes.hp # hpFreq THEN {"setHp"} ELSE {})
                    \cup (IF update /\ nodes.lp # lpFreq THEN {"setLp"} ELSE {})
                    \cup (IF update THEN {"setGain"} ELSE {})
                    \cup (IF fallback THEN {"setVolume", "setMuted"} ELSE {})
        IN [handles |-> [st.handles EXCEPT ![h] = el1],
            audioSources |-> sources1,
            audioNodes |-> nodes1,
            did |-> [st.did EXCEPT ![h] = done],
            attempts |-> [st.attempts EXCEPT ![h] = IF create THEN @ + 1 ELSE @]]
    ELSE
        [st EXCEPT !.handles[h].paused = TRUE,
                   !.did[h] = {"inactive"} \cup (IF el.paused THEN {} ELSE {"pause"})]

\* mediaElements.forEach(...)
RECURSIVE SyncAll(_, _, _, _, _, _)
SyncAll(st, hs, t, isPlaying, ctx, els) ==
    IF hs = <<>> THEN st
    ELSE SyncAll(SyncHandle(st, hs[1], t, isPlaying, ctx, els), Tail(hs),
                 t, isPlaying, ctx, els)

\* the audio context after the first lines of the effect: made if there is
\* none and the class exists, resumed if suspended while playing
ContextAfter(ctx, isPlaying) ==
    LET made == IF ctx = NoContext /\ env.hasAudioContextClass
                THEN [state |-> "suspended"]
                ELSE ctx
    IN IF made # NoContext /\ made.state = "suspended" /\ isPlaying
       THEN [state |-> "running"]
       ELSE made

\* fresh: nothing has happened since the run
NoTick == [n |-> 0, t |-> 0, isPlaying |-> FALSE, fresh |-> FALSE]

\* what the effect reads and writes, before any run
SyncStart ==
    /\ handles = [h \in Handles |-> NewHandle(h)]
    /\ audioContext = NoContext
    /\ audioSources = {}
    /\ audioNodes = [id \in Ids |-> NoNodes]
    /\ tick = NoTick
    /\ did = [h \in Handles |-> {}]
    /\ attempts = [h \in Handles |-> 0]
    /\ before = [handles |-> [h \in Handles |-> NewHandle(h)],
                 audioSources |-> {},
                 audioNodes |-> [id \in Ids |-> NoNodes],
                 attempts |-> [h \in Handles |-> 0]]

\* the preview while the history manager is worked on: one element list
SyncIdle ==
    /\ elements = ElementList(Undefined, Undefined)
    /\ env = [routable |-> [h \in Handles |-> TRUE],
              chainable |-> [h \in Handles |-> TRUE],
              hasAudioContextClass |-> TRUE]
    /\ SyncStart

\* any element list of the model, in any browser
SyncInit ==
    /\ elements \in ElementLists
    /\ env \in [routable : {[h \in Handles |-> h # 1 \/ r] : r \in BOOLEAN},
                chainable : {[h \in Handles |-> h # 1 \/ r] : r \in BOOLEAN},
                hasAudioContextClass : BOOLEAN]
    /\ env.routable[1] \/ env.chainable[1]
    /\ SyncStart

\* the element lists with clip a's filter frequencies unset, 0, or a value
\* in between
FilterLists ==
    {[ElementList(Undefined, Undefined) EXCEPT
         ![1].props.highPassFrequency = hp, ![1].props.lowPassFrequency = lp] :
        hp \in {Undefined, Some(0), Some(500)},
        lp \in {Undefined, Some(0), Some(8000)}}

\* any of them, in a browser that routes every handle
FilterInit ==
    /\ elements \in FilterLists
    /\ env = [routable |-> [h \in Handles |-> TRUE],
              chainable |-> [h \in Handles |-> TRUE],
              hasAudioContextClass |-> TRUE]
    /\ SyncStart

\* useEffect(() => {...}, [currentTime, isPlaying, elements])
Tick(t, isPlaying) ==
    /\ tick.n < MaxTicks
    /\ LET ctx == ContextAfter(audioContext, isPlaying)
           st == SyncAll([handles |-> handles, audioSources |-> audioSources,
                          audioNodes |-> audioNodes,
                          did |-> [h \in Handles |-> {}], attempts |-> attempts],
                         HandleOrder, t, isPlaying, ctx, elements)
       IN /\ audioContext' = ctx
          /\ handles' = st.handles
          /\ audioSources' = st.audioSources
          /\ audioNodes' = st.audioNodes
          /\ did' = st.did
          /\ attempts' = st.attempts
    /\ tick' = [n |-> tick.n + 1, t |-> t, isPlaying |-> isPlaying, fresh |-> TRUE]
    /\ before' = [handles |-> handles, audioSources |-> audioSources,
                  audioNodes |-> audioNodes, attempts |-> attempts]
    /\ UNCHANGED <<elements, env>>
    /\ UNCHANGED <<histVars, gestureVars, renderVars, storeVars>>

(***************************************************************************)
(* VideoPreview pointer gestures: values and geometry.                     *)
(***************************************************************************)
\* null
None == <<>>

\* the rotations of the model, in degrees: the right angles, and 53 for the
\* angle of the 3-4-5 triangle (53.13...), whose cosine and sine are 3/5, 4/5
Rotations == {0, 90, 180, 270, 53}

\* five times Math.cos((r * Math.PI) / 180) and Math.sin((r * Math.PI) / 180)
Cos5(r) == CASE r = 0 -> 5 [] r = 90 -> 0 [] r = 180 -> -5 [] r = 270 -> 0
             [] OTHER -> 3
Sin5(r) == CASE r = 0 -> 0 [] r = 90 -> 5 [] r = 180 -> 0 [] r = 270 -> -5
             [] OTHER -> 4

\* containerRef.current.getBoundingClientRect(), in pixels
Rect == [width |-> 100, height |-> 50]

\* the positions of the pointer, in pixels, and those where it goes down
Pointers == {[x |-> px, y |-> py] : px \in {0, 10, 40}, py \in {0, 10, 40}}
DownPointers == {[x |-> 0, y |-> 0], [x |-> 40, y |-> 10]}

\* the eight handles of renderHandles, as the characters of their codes
ResizeHandles == {<<"n", "w">>, <<"n">>, <<"n", "e">>, <<"e">>,
                  <<"s", "e">>, <<"s">>, <<"s", "w">>, <<"w">>}

\* resizeHandle.includes(c)
Includes(handle, c) == \E i \in 1..Len(handle) : handle[i] = c

\* the element on the canvas before any gesture
NewBox(r) == [id |-> "e1", x |-> 10000, y |-> 20000, width |-> 20000,
              height |-> 30000, rotation |-> r]

\* { x: element.x, y: element.y, w: element.width, h: element.height,
\*   r: element.rotation }
Snapshot(element) == [x |-> element.x, y |-> element.y, w |-> element.width,
                      h |-> element.height, r |-> element.rotation]

\* Math.max, returning its second argument
MathMax_Second(a, b) == b

\* Math.max(a, b)
MathMax(a, b) == IF a >= b THEN a ELSE b

\* five times the local x delta, taking the screen axes for the element's
LocalDeltaX5_Unrotated(deltaX, deltaY, r) == deltaX * 5

\* five times localDeltaX = (deltaX * cos) + (deltaY * sin)
LocalDeltaX5(deltaX, deltaY, r) == (deltaX * Cos5(r)) + (deltaY * Sin5(r))

\* five times localDeltaY = (deltaY * cos) - (deltaX * sin)
LocalDeltaY5(deltaX, deltaY, r) == (deltaY * Cos5(r)) - (deltaX * Sin5(r))

\* applyXChange(amount, isLeft) on g = [x, y, w, h]; dx500 and dy500 are 500
\* times the dx and dy of the code
applyXChange(g, amount, isLeft, r) ==
    LET half == amount \div 2
        dx500 == IF isLeft THEN -(half * Rect.width) * Cos5(r)
                 ELSE (half * Rect.width) * Cos5(r)
        dy500 == IF isLeft THEN -(half * Rect.width) * Sin5(r)
                 ELSE (half * Rect.width) * Sin5(r)
    IN [g EXCEPT !.x = @ + (dx500 * 100) \div (500 * Rect.width),
                 !.y = @ + (dy500 * 100) \div (500 * Rect.height),
                 !.w = IF isLeft THEN @ - amount ELSE @ + amount]

\* applyYChange(amount, isTop)
applyYChange(g, amount, isTop, r) ==
    LET half == amount \div 2
        dx500 == IF isTop THEN (half * Rect.height) * Sin5(r)
                 ELSE -(half * Rect.height) * Sin5(r)
        dy500 == IF isTop THEN -(half * Rect.height) * Cos5(r)
                 ELSE (half * Rect.height) * Cos5(r)
    IN [g EXCEPT !.x = @ + (dx500 * 100) \div (500 * Rect.width),
                 !.y = @ + (dy500 * 100) \div (500 * Rect.height),
                 !.h = IF isTop THEN @ - amount ELSE @ + amount]

\* the update of the resize branch of handleMouseMove (lines 311-381) for a
\* pointer deltaX, deltaY pixels away from where it went down
Resize(initial, handle, deltaX, deltaY) ==
    LET ldXPercent == (LocalDeltaX5(deltaX, deltaY, initial.r) * 100000)
                         \div (5 * Rect.width)
        ldYPercent == (LocalDeltaY5(deltaX, deltaY, initial.r) * 100000)
                         \div (5 * Rect.height)
        g0 == [x |-> initial.x, y |-> initial.y, w |-> initial.w, h |-> initial.h]
        g1 == IF Includes(handle, "e")
              THEN applyXChange(g0, ldXPercent, FALSE, initial.r) ELSE g0
        g2 == IF Includes(handle, "w")
              THEN applyXChange(g1, ldXPercent, TRUE, initial.r) ELSE g1
        g3 == IF Includes(handle, "s")
              THEN applyYChange(g2, ldYPercent, FALSE, initial.r) ELSE g2
        g4 == IF Includes(handle, "n")
              THEN applyYChange(g3, ldYPercent, TRUE, initial.r) ELSE g3
    IN [x |-> g4.x, y |-> g4.y,
        width |-> MathMax(1000, g4.w), height |-> MathMax(1000, g4.h)]

\* the drag update, had the drag branch turned the pointer delta into the
\* element's axes as the resize branch does
Drag_Rotated(initial, deltaX, deltaY) ==
    [x |-> initial.x + (LocalDeltaX5(deltaX, deltaY, initial.r) * 100000)
                          \div (5 * Rect.width),
     y |-> initial.y + (LocalDeltaY5(deltaX, deltaY, initial.r) * 100000)
                          \div (5 * Rect.height)]

\* the update of the drag branch of handleMouseMove (lines 298-309)
Drag(initial, deltaX, deltaY) ==
    [x |-> initial.x + (deltaX * 100000) \div Rect.width,
     y |-> initial.y + (deltaY * 100000) \div Rect.height]

\* onUpdateElement(id, updates): the parent merges the updates into the element
Merged(element, updates) ==
    [f \in DOMAIN element |-> IF f \in DOMAIN updates THEN updates[f] ELSE element[f]]

\* held: the pointer-downs since the last pointer-up; down: the latest of
\* them; moves: the pointer moves of a gesture of one pointer-down, 2 standing
\* for two or more
NoPointer == [type |-> "none", x |-> 0, y |-> 0, held |-> 0, down |-> None, moves |-> 0]

\* the pointer after going down at p
PointerDown(type, handle, p) ==
    [type |-> type, x |-> p.x, y |-> p.y, held |-> pointer.held + 1,
     down |-> Some([type |-> type, handle |-> handle, x |-> p.x, y |-> p.y,
                    box |-> box]),
     moves |-> 0]

\* the pointer after moving to p
PointerMove(p) ==
    [pointer EXCEPT !.type = "move", !.x = p.x, !.y = p.y,
                    !.moves = IF pointer.held = 1 /\ @ < 2 THEN @ + 1 ELSE @]

\* the component after its first render
GestureStart ==
    /\ isDragging = FALSE
    /\ dragOffset = [x |-> 0, y |-> 0]
    /\ isResizing = FALSE
    /\ resizeHandle = None
    /\ initialElementState = None
    /\ startMousePos = [x |-> 0, y |-> 0]
    /\ emitted = None
    /\ pointer = NoPointer
    /\ gestures = 0

\* the canvas while other parts are worked on
GestureIdle == box = NewBox(0) /\ selectedElementId = None /\ GestureStart

\* the element at any rotation of the model, selected (from the timeline,
\* say) or not
GestureInit ==
    /\ box \in {NewBox(r) : r \in Rotations}
    /\ selectedElementId \in {None, Some("e1")}
    /\ GestureStart

(***************************************************************************)
(* renderVisualElement: the transitions.                                   *)
(***************************************************************************)
TransitionTypes == {"none", "fade", "dissolve", "zoom-in", "zoom-out",
                    "wipe-left", "wipe-right", "wipe-up", "wipe-down"}

\* { type, duration }
Transition(type, duration) == [type |-> type, duration |-> duration]

\* an element with what renderVisualElement reads of it for the transitions
Clip(type, startTime, duration, transitionIn, transitionOut) ==
    [type |-> type, startTime |-> startTime, duration |-> duration,
     transitionIn |-> transitionIn, transitionOut |-> transitionOut]

\* the transitions of the model: none at all, or any type over 0.5 s or 1 s
Transitions ==
    {Undefined} \cup {Some(Transition(type, d)) : type \in TransitionTypes, d \in {50, 100}}

\* an image and an audio clip over [1 s, 2 s]
Clips ==
    {Clip(type, 100, 100, transitionIn, transitionOut) :
        type \in {"image", "audio"},
        transitionIn \in Transitions, transitionOut \in Transitions}

\* the times of the renders: around the window, at its ends and inside it
RenderTimes == {99, 100, 125, 150, 175, 200, 201}

\* Math.min, returning its first argument
MathMin_First(a, b) == a

\* Math.min(a, b)
MathMin(a, b) == IF a <= b THEN a ELSE b

\* the progress, counted down
Progress_Down(time, duration) == ((duration - time) * 10000) \div duration

\* time / duration
Progress(time, duration) == (time * 10000) \div duration

\* transitionOpacity = 1, transitionTransform = ''
NoTransition == [transitionOpacity |-> 10000, transitionTransform |-> <<>>]

\* `scale(${v})`, `translateX(${v}%)`, `translateY(${v}%)`
Css(fn, v) == <<fn, v>>

\* lines 415-443, s being the opacity and transform so far
TransitionIn(el, elapsedTime, s) ==
    IF /\ el.transitionIn # Undefined
       /\ el.transitionIn[1].type # "none"
       /\ elapsedTime < el.transitionIn[1].duration
    THEN LET progress == Progress(elapsedTime, el.transitionIn[1].duration)
             type == el.transitionIn[1].type
         IN CASE type \in {"fade", "dissolve"} ->
                    [s EXCEPT !.transitionOpacity = progress]
              [] type = "zoom-in" ->
                    [transitionOpacity |-> progress,
                     transitionTransform |-> Css("scale", 5000 + progress \div 2)]
              [] type = "zoom-out" ->
                    [transitionOpacity |-> progress,
                     transitionTransform |-> Css("scale", 15000 - progress \div 2)]
              [] type = "wipe-left" ->
                    [s EXCEPT !.transitionTransform = Css("translateX", 10000 - progress)]
              [] type = "wipe-right" ->
                    [s EXCEPT !.transitionTransform = Css("translateX", progress - 10000)]
              [] type = "wipe-up" ->
                    [s EXCEPT !.transitionTransform = Css("translateY", 10000 - progress)]
              [] type = "wipe-down" ->
                    [s EXCEPT !.transitionTransform = Css("translateY", progress - 10000)]
              [] OTHER -> s
    ELSE s

\* lines 446-474
TransitionOut(el, remainingTime, s) ==
    IF /\ el.transitionOut # Undefined
       /\ el.transitionOut[1].type # "none"
       /\ remainingTime < el.transitionOut[1].duration
    THEN LET progress == Progress(remainingTime, el.transitionOut[1].duration)
             type == el.transitionOut[1].type
             opacity == MathMin(s.transitionOpacity, progress)
         IN CASE type \in {"fade", "dissolve"} ->
                    [s EXCEPT !.transitionOpacity = opacity]
              [] type = "zoom-in" ->
                    [transitionOpacity |-> opacity,
                     transitionTransform |-> Css("scale", 15000 - progress \div 2)]
              [] type = "zoom-out" ->
                    [transitionOpacity |-> opacity,
                     transitionTransform |-> Css("scale", 5000 + progress \div 2)]
              [] type = "wipe-left" ->
                    [s EXCEPT !.transitionTransform = Css("translateX", progress - 10000)]
              [] type = "wipe-right" ->
                    [s EXCEPT !.transitionTransform = Css("translateX", 10000 - progress)]
              [] type = "wipe-up" ->
                    [s EXCEPT !.transitionTransform = Css("translateY", progress - 10000)]
              [] type = "wipe-down" ->
                    [s EXCEPT !.transitionTransform = Css("translateY", 10000 - progress)]
              [] OTHER -> s
    ELSE s

\* renderVisualElement(el) at currentTime: null, or the opacity of the style
\* and the transition's part of its transform
renderVisualElement(el, currentTime) ==
    IF currentTime < el.startTime \/ currentTime > el.startTime + el.duration
    THEN Null
    ELSE IF el.type = "audio" THEN Null
    ELSE LET elapsedTime == currentTime - el.startTime
             remainingTime == (el.startTime + el.duration) - currentTime
             s == TransitionOut(el, remainingTime,
                                TransitionIn(el, elapsedTime, NoTransition))
         IN [opacity |-> s.transitionOpacity,
             transitionTransform |-> s.transitionTransform]

\* nothing rendered yet
RenderStart == shownAt = None /\ rendered = Null

\* the canvas while other parts are worked on
RenderIdle == clip = Clip("image", 100, 100, Undefined, Undefined) /\ RenderStart

\* any clip of the model
RenderInit == clip \in Clips /\ RenderStart

(***************************************************************************)
(* The project store: values and the two functions.                        *)
(***************************************************************************)
\* const MEDIA_STORE = 'media_assets'; const PROJECT_STORE = 'project_state';
MEDIA_STORE == "media_assets"
PROJECT_STORE == "project_state"

\* 'blob:'
BLOB_PREFIX == <<"b", "l", "o", "b", ":">>

\* the src strings of the model: an object URL, a remote URL that holds
\* 'blob:' further on, 'blob' without the colon, the empty string
BlobUrl == <<"b", "l", "o", "b", ":", "7">>
RemoteUrl == <<"h", "t", "t", "p", ":", "b", "l", "o", "b", ":">>
BlobWord == <<"b", "l", "o", "b">>
Srcs == {BlobUrl, RemoteUrl, BlobWord, <<>>}

\* an element without a src, and one with
Plain(id) == [id |-> id, props |-> [volume |-> 50]]
Sourced(id, src) == [id |-> id, props |-> [volume |-> 50, src |-> src]]

\* the element lists and track lists the caller saves
SavedElementLists ==
    { <<>>,
      <<Plain("e1")>>,
      <<Sourced("e1", BlobUrl)>>,
      <<Sourced("e1", RemoteUrl), Sourced("e2", BlobUrl)>>,
      <<Sourced("e1", BlobWord), Plain("e2")>>,
      <<Sourced("e1", BlobUrl), Sourced("e2", <<>>)>> }
SavedTrackLists == {<<>>, <<"t1">>}

\* s.startsWith(prefix), true of every string
StartsWith_Any(s, prefix) == TRUE

\* s.startsWith(prefix)
StartsWith(s, prefix) ==
    /\ Len(s) >= Len(prefix)
    /\ SubSeq(s, 1, Len(prefix)) = prefix

\* const { src, ...restProps } = el.props
RestProps(props) == [k \in DOMAIN props \ {"src"} |-> props[k]]

\* elements.map(el => el.props.src?.startsWith('blob:')
\*                    ? { ...el, props: restProps } : el)
ElementsToSave(els) ==
    [i \in 1..Len(els) |->
        IF "src" \in DOMAIN els[i].props /\ StartsWith(els[i].props.src, BLOB_PREFIX)
        THEN [els[i] EXCEPT !.props = RestProps(els[i].props)]
        ELSE els[i]]

\* the projectData of saveProjectState
ProjectData(els, tracks, now) ==
    [id |-> "current", elements |-> ElementsToSave(els), tracks |-> tracks,
     updatedAt |-> now]

\* request.onupgradeneeded: both object stores exist after initDB()
Upgraded(names) == names \cup {MEDIA_STORE, PROJECT_STORE}

\* store.put(record) on an object store with keyPath 'id'
Put(records, record) == {r \in records : r.id # record.id} \cup {record}

\* store.get(key): the record, undefined (as a set: none) if there is none
Get(records, key) == {r \in records : r.id = key}

\* what loadProjectState resolves to, given the result of store.get('current')
LoadResult(found) ==
    IF found = {} THEN Null
    ELSE LET data == CHOOSE r \in found : TRUE
         IN [elements |-> data.elements, tracks |-> data.tracks]

NoOutcome == [op |-> "none"]

\* no call made yet
StoreStart ==
    /\ opening = <<>>
    /\ transactions = <<>>
    /\ outcome = NoOutcome
    /\ latest = None
    /\ clock = 0
    /\ storeCalls = 0

\* a browser that has never opened the database
StoreIdle == db = [names |-> {}, project |-> {}] /\ StoreStart

\* a browser that has never opened the database, or holds its version 1
\* (media_assets only); no project has been saved
StoreInit ==
    /\ db \in {[names |-> n, project |-> {}] : n \in {{}, {MEDIA_STORE}}}
    /\ StoreStart

(***************************************************************************)
(* Spec: calls on the singleton historyManager.                            *)
(***************************************************************************)
NoCall == [name |-> "new", arg |-> Null, ret |-> Void]

HistoryInit ==
    /\ undoStack = <<>>
    /\ redoStack = <<>>
    /\ lastSavedState = EmptyString
    /\ call = NoCall
    /\ prevCall = NoCall
    /\ pre = NewManager
    /\ pre2 = NewManager
    /\ steps = 0
    /\ nextId = 0
    /\ current = HistoryState(0, 0, 0)
    /\ changes = <<>>
    /\ expected = Null

\* the bookkeeping of one call: m is the manager after it
Called(name, arg, ret, m) ==
    /\ undoStack' = m.undoStack
    /\ redoStack' = m.redoStack
    /\ lastSavedState' = m.lastSavedState
    /\ call' = [name |-> name, arg |-> arg, ret |-> ret]
    /\ prevCall' = call
    /\ pre' = Manager
    /\ pre2' = pre
    /\ steps' = steps + 1
    /\ UNCHANGED <<syncVars, gestureVars, renderVars, storeVars>>

Push(state) ==
    /\ steps < MaxSteps
    /\ Called("push", state, Void, push(Manager, state))
    /\ UNCHANGED <<nextId, current, changes, expected>>

\* n pushes in sequence, of states that are pairwise distinct
PushRun(n) ==
    /\ steps < MaxSteps
    /\ Called("pushRun", [from |-> nextId, len |-> n], Void,
              pushAll(Manager, RunStates(nextId, n)))
    /\ nextId' = nextId + n
    /\ UNCHANGED <<current, changes, expected>>

Undo(currentState) ==
    /\ steps < MaxSteps
    /\ LET r == undo(Manager, currentState)
       IN Called("undo", currentState, r.ret, r.m)
    /\ UNCHANGED <<nextId, current, changes, expected>>

Redo(currentState) ==
    /\ steps < MaxSteps
    /\ LET r == redo(Manager, currentState)
       IN Called("redo", currentState, r.ret, r.m)
    /\ UNCHANGED <<nextId, current, changes, expected>>

\* n undos in sequence, each result adopted as the current state
UndoRun(currentState, n) ==
    /\ steps < MaxSteps
    /\ LET r == undoAll(Manager, currentState, n)
       IN Called("undoRun", [state |-> currentState, len |-> n], r.ret, r.m)
    /\ UNCHANGED <<nextId, current, changes, expected>>

\* n redos in sequence, each result adopted as the current state
RedoRun(currentState, n) ==
    /\ steps < MaxSteps
    /\ LET r == redoAll(Manager, currentState, n)
       IN Called("redoRun", [state |-> currentState, len |-> n], r.ret, r.m)
    /\ UNCHANGED <<nextId, current, changes, expected>>

Clear ==
    /\ steps < MaxSteps
    /\ Called("clear", Null, Void, clear(Manager))
    /\ UNCHANGED <<nextId, current, changes, expected>>

RunLens == MAX_HISTORY_SIZE .. (MAX_HISTORY_SIZE + MaxExtra)

\* the states undo and redo are called with
CurrentStates == ArgStates

Init == HistoryInit /\ SyncIdle /\ GestureIdle /\ RenderIdle /\ StoreIdle

Next ==
    \/ \E state \in ArgStates : Push(state)
    \/ \E n \in RunLens : PushRun(n)
    \/ \E currentState \in CurrentStates : Undo(currentState)
    \/ \E currentState \in CurrentStates : Redo(currentState)
    \/ UndoRun(HistoryState(1, 0, 0), MAX_HISTORY_SIZE)
    \/ RedoRun(HistoryState(1, 0, 0), MAX_HISTORY_SIZE)
    \/ Clear

Spec == Init /\ [][Next]_vars

(***************************************************************************)
(* SpecUsage: the documented caller ("call before making changes").        *)
(***************************************************************************)
\* the caller changes its state from current to newState, saving current first
Edit(newState) ==
    /\ steps < MaxUsageSteps
    /\ newState # current
    /\ Called("push", current, Void, push(Manager, current))
    /\ current' = newState
    /\ changes' = Append(changes, current)
    /\ UNCHANGED <<nextId, expected>>

\* the caller undoes: the state returned, if any, becomes its state
UndoUse ==
    /\ steps < MaxUsageSteps
    /\ LET r == undo(Manager, current)
       IN /\ Called("undo", current, r.ret, r.m)
          /\ current' = IF r.ret = Null THEN current ELSE r.ret
          /\ expected' = IF r.ret # Null /\ changes # <<>> THEN Last(changes) ELSE Null
          /\ changes' = IF r.ret # Null /\ changes # <<>> THEN Front(changes) ELSE changes
    /\ UNCHANGED nextId

\* the caller redoes: the change undone last is made again
RedoUse ==
    /\ steps < MaxUsageSteps
    /\ LET r == redo(Manager, current)
       IN /\ Called("redo", current, r.ret, r.m)
          /\ current' = IF r.ret = Null THEN current ELSE r.ret
          /\ changes' = IF r.ret = Null THEN changes ELSE Append(changes, current)
    /\ UNCHANGED <<nextId, expected>>

NextUsage ==
    \/ \E newState \in ArgStates : Edit(newState)
    \/ UndoUse
    \/ RedoUse

SpecUsage == Init /\ [][NextUsage]_vars

\* between two runs the media that is playing goes on by d: the media
\* primitive advances currentTime on its own
MediaPlays(d) ==
    /\ tick.fresh
    /\ tick.n < MaxTicks
    /\ \E h \in Handles : ~handles[h].paused
    /\ handles' = [h \in Handles |->
                     IF handles[h].paused THEN handles[h]
                     ELSE [handles[h] EXCEPT !.currentTime = @ + d]]
    /\ tick' = [tick EXCEPT !.fresh = FALSE]
    /\ UNCHANGED <<elements, env, audioContext, audioSources, audioNodes, did,
                   attempts, before>>
    /\ UNCHANGED <<histVars, gestureVars, renderVars, storeVars>>

\* how far the media goes on between two runs
Drifts == {HYSTERESIS, HYSTERESIS + 1}

(***************************************************************************)
(* SpecSync: runs of the sync effect.                                      *)
(***************************************************************************)
InitSync == HistoryInit /\ SyncInit /\ GestureIdle /\ RenderIdle /\ StoreIdle

NextSync ==
    \/ \E t \in Times, isPlaying \in BOOLEAN : Tick(t, isPlaying)
    \/ \E d \in Drifts : MediaPlays(d)

SpecSync == InitSync /\ [][NextSync]_vars

(***************************************************************************)
(* SpecFilter: runs of the sync effect over the filter settings.           *)
(***************************************************************************)
InitFilter == HistoryInit /\ FilterInit /\ GestureIdle /\ RenderIdle /\ StoreIdle

SpecFilter == InitFilter /\ [][NextSync]_vars

(***************************************************************************)
(* SpecGesture: pointer events on the element and its resize handles.      *)
(***************************************************************************)
\* onMouseDown of the element's div
handleElementMouseDown(p) ==
    /\ gestures < MaxGestures
    /\ selectedElementId' = Some(box.id)
    /\ isDragging' = TRUE
    /\ dragOffset' = [x |-> p.x, y |-> p.y]
    /\ initialElementState' = Some(Snapshot(box))
    /\ emitted' = None
    /\ pointer' = PointerDown("elementDown", None, p)
    /\ gestures' = gestures + 1
    /\ UNCHANGED <<isResizing, resizeHandle, startMousePos, box>>
    /\ UNCHANGED <<histVars, syncVars, renderVars, storeVars>>

\* onMouseDown of a resize handle; the handles are rendered for the selected
\* element only
handleResizeMouseDown(p, handle) ==
    /\ gestures < MaxGestures
    /\ selectedElementId = Some(box.id)
    /\ isResizing' = TRUE
    /\ resizeHandle' = Some(handle)
    /\ startMousePos' = [x |-> p.x, y |-> p.y]
    /\ initialElementState' = Some(Snapshot(box))
    /\ emitted' = None
    /\ pointer' = PointerDown("resizeDown", Some(handle), p)
    /\ gestures' = gestures + 1
    /\ UNCHANGED <<isDragging, dragOffset, selectedElementId, box>>
    /\ UNCHANGED <<histVars, syncVars, renderVars, storeVars>>

\* the mousemove listener, had it worked from the element as it is now in
\* place of the state kept at pointer-down
handleMouseMove_Incremental(p) ==
    /\ isDragging \/ isResizing
    /\ LET updates ==
              IF selectedElementId = None \/ initialElementState = None THEN None
              ELSE IF isDragging
                   THEN Some(Drag(Snapshot(box),
                                  p.x - dragOffset.x, p.y - dragOffset.y))
              ELSE IF isResizing /\ resizeHandle # None
                   THEN Some(Resize(Snapshot(box), resizeHandle[1],
                                    p.x - startMousePos.x, p.y - startMousePos.y))
              ELSE None
       IN /\ emitted' = IF updates = None THEN None
                        ELSE Some([id |-> selectedElementId[1], updates |-> updates[1]])
          /\ box' = IF updates # None /\ selectedElementId[1] = box.id
                    THEN Merged(box, updates[1]) ELSE box
    /\ pointer' = PointerMove(p)
    /\ UNCHANGED <<isDragging, dragOffset, isResizing, resizeHandle,
                   initialElementState, startMousePos, selectedElementId, gestures>>
    /\ UNCHANGED <<histVars, syncVars, renderVars, storeVars>>

\* the mousemove listener of window, registered while isDragging || isResizing
handleMouseMove(p) ==
    /\ isDragging \/ isResizing
    /\ LET updates ==
              IF selectedElementId = None \/ initialElementState = None THEN None
              ELSE IF isDragging
                   THEN Some(Drag(initialElementState[1],
                                  p.x - dragOffset.x, p.y - dragOffset.y))
              ELSE IF isResizing /\ resizeHandle # None
                   THEN Some(Resize(initialElementState[1], resizeHandle[1],
                                    p.x - startMousePos.x, p.y - startMousePos.y))
              ELSE None
       IN /\ emitted' = IF updates = None THEN None
                        ELSE Some([id |-> selectedElementId[1], updates |-> updates[1]])
          /\ box' = IF updates # None /\ selectedElementId[1] = box.id
                    THEN Merged(box, updates[1]) ELSE box
    /\ pointer' = PointerMove(p)
    /\ UNCHANGED <<isDragging, dragOffset, isResizing, resizeHandle,
                   initialElementState, startMousePos, selectedElementId, gestures>>
    /\ UNCHANGED <<histVars, syncVars, renderVars, storeVars>>

\* a mousemove of window while no listener is registered (lines 391-394)
mouseMoveUnheard(p) ==
    /\ ~(isDragging \/ isResizing)
    /\ emitted' = None
    /\ pointer' = PointerMove(p)
    /\ UNCHANGED <<isDragging, dragOffset, isResizing, resizeHandle,
                   initialElementState, startMousePos, selectedElementId, box,
                   gestures>>
    /\ UNCHANGED <<histVars, syncVars, renderVars, storeVars>>

\* the mouseup listener of window
handleMouseUp ==
    /\ isDragging \/ isResizing
    /\ isDragging' = FALSE
    /\ isResizing' = FALSE
    /\ resizeHandle' = None
    /\ initialElementState' = None
    /\ emitted' = None
    /\ pointer' = [pointer EXCEPT !.type = "up", !.held = 0, !.down = None,
                                  !.moves = 0]
    /\ UNCHANGED <<dragOffset, startMousePos, selectedElementId, box, gestures>>
    /\ UNCHANGED <<histVars, syncVars, renderVars, storeVars>>

InitGesture == HistoryInit /\ SyncIdle /\ GestureInit /\ RenderIdle /\ StoreIdle

NextGesture ==
    \/ \E p \in DownPointers : handleElementMouseDown(p)
    \/ \E p \in DownPointers, handle \in ResizeHandles :
          handleResizeMouseDown(p, handle)
    \/ \E p \in Pointers : handleMouseMove(p)
    \/ \E p \in Pointers : mouseMoveUnheard(p)
    \/ handleMouseUp

SpecGesture == InitGesture /\ [][NextGesture]_vars

(***************************************************************************)
(* SpecRender: renders of one element.                                     *)
(***************************************************************************)
\* elements.map(renderVisualElement) with the currentTime prop at t
Render(t) ==
    /\ shownAt' = Some(t)
    /\ rendered' = renderVisualElement(clip, t)
    /\ UNCHANGED clip
    /\ UNCHANGED <<histVars, syncVars, gestureVars, storeVars>>

InitRender == HistoryInit /\ SyncIdle /\ GestureIdle /\ RenderInit /\ StoreIdle

NextRender == \E t \in RenderTimes : Render(t)

SpecRender == InitRender /\ [][NextRender]_vars

(***************************************************************************)
(* SpecStore: calls on the project store.  A call waits for initDB(), then *)
(* for its transaction; open requests and transactions on one object store *)
(* are served in the order they were made.                                 *)
(***************************************************************************)
\* saveProjectState(elements, tracks), up to `await initDB()`
saveProjectState(els, tracks) ==
    /\ storeCalls < MaxStoreCalls
    /\ opening' = Append(opening, [op |-> "save", elements |-> els, tracks |-> tracks])
    /\ latest' = Some([elements |-> els, tracks |-> tracks])
    /\ storeCalls' = storeCalls + 1
    /\ UNCHANGED <<db, transactions, outcome, clock>>
    /\ UNCHANGED <<histVars, syncVars, gestureVars, renderVars>>

\* loadProjectState(), up to `await initDB()`
loadProjectState ==
    /\ storeCalls < MaxStoreCalls
    /\ opening' = Append(opening, [op |-> "load", after |-> latest])
    /\ storeCalls' = storeCalls + 1
    /\ UNCHANGED <<db, transactions, outcome, latest, clock>>
    /\ UNCHANGED <<histVars, syncVars, gestureVars, renderVars>>

\* initDB() resolves for the oldest waiting call, which goes on to make its
\* transaction and request
Opened ==
    /\ opening # <<>>
    /\ LET c == Head(opening)
       IN transactions' = Append(transactions,
             IF c.op = "save"
             THEN [op |-> "save", elements |-> c.elements, tracks |-> c.tracks,
                   projectData |-> ProjectData(c.elements, c.tracks, clock + 1)]
             ELSE c)
    /\ clock' = clock + 1
    /\ db' = [db EXCEPT !.names = Upgraded(@)]
    /\ opening' = Tail(opening)
    /\ UNCHANGED <<outcome, latest, storeCalls>>
    /\ UNCHANGED <<histVars, syncVars, gestureVars, renderVars>>

\* request.onsuccess of the oldest transaction: the promise resolves
Completed ==
    /\ transactions # <<>>
    /\ PROJECT_STORE \in db.names
    /\ LET x == Head(transactions)
       IN IF x.op = "save"
          THEN /\ db' = [db EXCEPT !.project = Put(@, x.projectData)]
               /\ outcome' = [op |-> "save", elements |-> x.elements,
                              tracks |-> x.tracks]
          ELSE /\ db' = db
               /\ outcome' = [op |-> "load", after |-> x.after,
                              value |-> LoadResult(Get(db.project, "current"))]
    /\ transactions' = Tail(transactions)
    /\ UNCHANGED <<opening, latest, clock, storeCalls>>
    /\ UNCHANGED <<histVars, syncVars, gestureVars, renderVars>>

InitStore == HistoryInit /\ SyncIdle /\ GestureIdle /\ RenderIdle /\ StoreInit

NextStore ==
    \/ \E els \in SavedElementLists, tracks \in SavedTrackLists :
          saveProjectState(els, tracks)
    \/ loadProjectState
    \/ Opened
    \/ Completed

SpecStore == InitStore /\ [][NextStore]_vars

(***************************************************************************)
(* Claims about the HistoryManager.                                        *)
(***************************************************************************)
\* the last call was a successful undo / redo
UndoSucceeded(c) == c.name = "undo" /\ c.ret # Null
RedoSucceeded(c) == c.name = "redo" /\ c.ret # Null

\* C1 (as claimed): after a successful undo, the next push, of any state,
\* leaves the redo stack empty (so that a redo right after it returns null).
C1_PushAfterUndoClearsRedo ==
    (call.name = "push" /\ UndoSucceeded(prevCall)) => redoStack = <<>>

\* C2 (as claimed), under the documented usage: every successful undo returns
\* the state the caller had just before its most recent change that is not
\* undone.
C2_UndoReturnsPreviousState ==
    UndoSucceeded(call) => call.ret = expected

\* C3: push(state) leaves the undo stack, the redo stack and the fingerprint
\* all unchanged exactly when state serializes to the last fingerprint; the
\* second of two pushes of the same state in a row changes nothing, so that
\* the two together add at most one entry.
C3_PushDedup ==
    /\ call.name = "push" =>
          ((Manager = pre) <=> (Stringify(call.arg) = pre.lastSavedState))
    /\ (call.name = "push" /\ prevCall.name = "push" /\ call.arg = prevCall.arg) =>
          /\ Manager = pre
          /\ Len(undoStack) <= Len(pre2.undoStack) + 1

\* two pushes of one state in a row on a new manager: depth 1
C3_Witness ==
    /\ call.name = "push" /\ prevCall.name = "push" /\ call.arg = prevCall.arg
    /\ pre2 = NewManager
    /\ Len(undoStack) = 1

\* C4: a run of more than MAX_HISTORY_SIZE pushes of pairwise distinct states
\* leaves exactly MAX_HISTORY_SIZE snapshots: the states pushed last, in the
\* order of the pushes.
C4_Capacity ==
    (call.name = "pushRun" /\ call.arg.len > MAX_HISTORY_SIZE) =>
        /\ Len(undoStack) = MAX_HISTORY_SIZE
        /\ undoStack = SubSeq(RunStates(call.arg.from, call.arg.len),
                              call.arg.len - MAX_HISTORY_SIZE + 1, call.arg.len)

\* MAX_HISTORY_SIZE + 1 states pushed onto a stack that held snapshots already
C4_Witness ==
    /\ call.name = "pushRun" /\ call.arg.len = MAX_HISTORY_SIZE + 1
    /\ pre.undoStack # <<>>
    /\ Len(undoStack) = MAX_HISTORY_SIZE
    /\ undoStack[1] = FreshState(call.arg.from + 1)

\* C5: neither stack ever holds more than MAX_HISTORY_SIZE snapshots.
C5_StacksBounded ==
    /\ Len(undoStack) <= MAX_HISTORY_SIZE
    /\ Len(redoStack) <= MAX_HISTORY_SIZE

\* a redo has pushed onto the undo stack and filled it
C5_Witness ==
    /\ RedoSucceeded(call)
    /\ Len(undoStack) = MAX_HISTORY_SIZE

\* the redo stack is full
C5_RedoFull == Len(redoStack) = MAX_HISTORY_SIZE

\* C6: result = undo(current), then redo(result), returns a state equal to
\* current, and both stacks hold what they held before the undo.
C6_RoundTrip ==
    (RedoSucceeded(call) /\ UndoSucceeded(prevCall) /\ call.arg = prevCall.ret) =>
        /\ call.ret = prevCall.arg
        /\ undoStack = pre2.undoStack
        /\ redoStack = pre2.redoStack

\* a round trip from a full undo stack and a redo stack that is not empty,
\* with a current state that differs from others in its markers only
C6_Witness ==
    /\ RedoSucceeded(call) /\ UndoSucceeded(prevCall) /\ call.arg = prevCall.ret
    /\ prevCall.arg = HistoryState(0, 0, 1)
    /\ Len(pre2.undoStack) > 1

\* C7: undo on an empty undo stack and redo on an empty redo stack return null
\* and change nothing; they return null in that case only, and canUndo /
\* canRedo before the call tell whether it returns a snapshot.
C7_Underflow ==
    /\ call.name = "undo" =>
          /\ (call.ret = Null) <=> (pre.undoStack = <<>>)
          /\ (call.ret = Null) => Manager = pre
          /\ canUndo(pre) <=> (call.ret # Null)
    /\ call.name = "redo" =>
          /\ (call.ret = Null) <=> (pre.redoStack = <<>>)
          /\ (call.ret = Null) => Manager = pre
          /\ canRedo(pre) <=> (call.ret # Null)

\* an undo refused while the redo stack and the fingerprint are not empty
C7_Witness ==
    /\ call.name = "undo" /\ call.ret = Null
    /\ redoStack # <<>>
    /\ lastSavedState # EmptyString

\* C8: clear empties both stacks and resets the fingerprint: an undo or a redo
\* right after it returns null, and a push right after it, of any state, the
\* one recorded last before the clear too, adds exactly one entry.
C8_Clear ==
    /\ call.name = "clear" => Manager = NewManager
    /\ (prevCall.name = "clear" /\ call.name \in {"undo", "redo"}) =>
          call.ret = Null /\ Manager = NewManager
    /\ (prevCall.name = "clear" /\ call.name = "push") => Len(undoStack) = 1

\* the state recorded last before the clear is pushed again after it
C8_Witness ==
    /\ prevCall.name = "clear" /\ call.name = "push"
    /\ pre2.lastSavedState = Stringify(call.arg)
    /\ Len(undoStack) = 1

(***************************************************************************)
(* Claims about the sync effect.                                           *)
(***************************************************************************)
\* the element the handle h is correlated to, NoElement if there is none
ElementOf(h) == FindById(elements, handles[h].elementId)

\* the effect has just run
Ticked == tick.n > 0 /\ tick.fresh

\* C9: on a tick the position of an active element's handle is overwritten
\* with (t - startTime) + mediaOffset iff it was more than 0.3 s away from it
\* (at exactly 0.3 s it is left alone), so that after the tick each active
\* handle is within 0.3 s of its target.
C9_Hysteresis ==
    Ticked =>
        \A h \in Handles :
            LET element == ElementOf(h)
                target == (tick.t - element.startTime) + element.mediaOffset
                drift == Abs(before.handles[h].currentTime - target)
            IN (element # NoElement
                /\ tick.t >= element.startTime
                /\ tick.t <= element.startTime + element.duration) =>
                   /\ ("seek" \in did[h]) <=> (drift > 30)
                   /\ handles[h].currentTime =
                         IF drift > 30 THEN target ELSE before.handles[h].currentTime
                   /\ Abs(handles[h].currentTime - target) <= 30

\* a handle exactly 0.3 s away from its target, ahead of it, is left alone
C9_Witness ==
    /\ Ticked
    /\ \E h \in Handles :
          LET element == ElementOf(h)
          IN /\ element # NoElement
             /\ "active" \in did[h]
             /\ before.handles[h].currentTime - TargetTime(element, tick.t) = 30
             /\ "seek" \notin did[h]
             /\ handles[h].currentTime # TargetTime(element, tick.t)

\* C10: a handle's element is treated as active iff startTime <= t <=
\* startTime + duration; for an inactive element the tick leaves currentTime,
\* playbackRate, volume and muted of the handle and the route cache as they
\* were, constructs no route, and pauses the handle iff it was playing.
C10_ActiveWindow ==
    Ticked =>
        \A h \in Handles :
            LET element == ElementOf(h)
                inside == /\ element.startTime <= tick.t
                          /\ tick.t <= element.startTime + element.duration
            IN element # NoElement =>
                  /\ ("active" \in did[h]) <=> inside
                  /\ ("inactive" \in did[h]) <=> ~inside
                  /\ ~inside =>
                        /\ handles[h] = [before.handles[h] EXCEPT !.paused = TRUE]
                        /\ did[h] = {"inactive"} \cup
                                    (IF before.handles[h].paused THEN {} ELSE {"pause"})
                        /\ (h \in audioSources) <=> (h \in before.audioSources)
                        /\ audioNodes[element.id] = before.audioNodes[element.id]
                        /\ attempts[h] = before.attempts[h]

\* a handle that was playing, one step after the end of its element's window,
\* is paused and nothing else
C10_Witness ==
    /\ Ticked
    /\ \E h \in Handles :
          LET element == ElementOf(h)
          IN /\ element # NoElement
             /\ tick.t = element.startTime + element.duration + 1
             /\ "pause" \in did[h]
             /\ ~before.handles[h].paused
             /\ before.handles[h].currentTime # 0

\* a handle at the very end of its element's window is synchronized
C10_AtEnd ==
    /\ Ticked
    /\ \E h \in Handles :
          LET element == ElementOf(h)
          IN /\ element # NoElement
             /\ tick.t = element.startTime + element.duration
             /\ "seek" \in did[h]

(***************************************************************************)
(* Ducking and the audio routes.                                           *)
(***************************************************************************)
\* the positions of the other audio/video elements with ducking = true that
\* are active at t
Duckers(element, t) ==
    {i \in 1..Len(elements) :
        /\ elements[i].id # element.id
        /\ elements[i].type \in {"audio", "video"}
        /\ elements[i].props.ducking = Some(TRUE)
        /\ elements[i].startTime <= t
        /\ t <= elements[i].startTime + elements[i].duration}

\* the threshold of the first of them in list order, 0.2 if it has none
FirstFactor(element, t) ==
    LET first == CHOOSE i \in Duckers(element, t) :
                    \A j \in Duckers(element, t) : i <= j
        threshold == elements[first].props.duckingThreshold
    IN IF threshold = Undefined THEN 20 ELSE threshold[1]

\* the base volume of an element, 1.0 if it has none, as a level
BaseLevel(element) ==
    IF element.props.volume = Undefined THEN FULL_LEVEL
    ELSE element.props.volume[1] * 100

\* C11: when two or more other active audio/video elements have ducking =
\* true, the level a tick applies to the victim (to the gain of its route, or
\* to the volume of its handle when there is no audio context) is its base
\* level (0 on the route when muted) times one factor: the duckingThreshold,
\* 0.2 by default, of the first of them in list order.
C11_DuckingExclusive ==
    Ticked =>
        \A h \in Handles :
            LET element == ElementOf(h)
            IN (/\ element # NoElement
                /\ "active" \in did[h]
                /\ Cardinality(Duckers(element, tick.t)) >= 2) =>
                   LET factor == FirstFactor(element, tick.t)
                       base == BaseLevel(element)
                   IN /\ "setGain" \in did[h] =>
                            audioNodes[element.id].gain =
                               IF element.props.isMuted = Some(TRUE) THEN 0
                               ELSE (base * factor) \div 100
                      /\ "setVolume" \in did[h] =>
                            handles[h].volume = (base * factor) \div 100

\* clip a at half volume under two duckers, b (no threshold) before d (0.3):
\* the gain of its route is 0.5 x 0.2
C11_Witness ==
    /\ Ticked
    /\ \E h \in Handles :
          LET element == ElementOf(h)
          IN /\ element # NoElement
             /\ "setGain" \in did[h]
             /\ Cardinality(Duckers(element, tick.t)) >= 2
             /\ element.props.volume = Some(50)
             /\ audioNodes[element.id].gain = 1000

\* C12 (as stated): once the construction of the route of a handle has failed
\* in a tick, no later tick tries to construct a route for that handle.
C12_NoRetry ==
    Ticked =>
        \A h \in Handles :
            (/\ before.attempts[h] > 0
             /\ before.audioNodes[handles[h].elementId] = NoNodes) =>
                /\ "createSource" \notin did[h]
                /\ attempts[h] = before.attempts[h]

\* the level and the mute flag of the fallback path for an element at t
DirectVolume(element, t) ==
    IF Duckers(element, t) = {} THEN BaseLevel(element)
    ELSE (BaseLevel(element) * FirstFactor(element, t)) \div 100

DirectMuted(element) == element.props.isMuted = Some(TRUE)

\* C13 (as stated): when the construction of the route of an active element's
\* handle has failed and there is an audio context, every tick in which the
\* element is active writes the ducked volume and the mute flag of the element
\* to the volume and muted controls of the handle.
C13_FallbackAfterFailure ==
    Ticked =>
        \A h \in Handles :
            LET element == ElementOf(h)
            IN (/\ element # NoElement
                /\ "active" \in did[h]
                /\ audioContext # NoContext
                /\ attempts[h] > 0
                /\ audioNodes[element.id] = NoNodes) =>
                   /\ handles[h].volume = DirectVolume(element, tick.t)
                   /\ handles[h].muted = DirectMuted(element)

\* the route of a handle as it is recorded: which source, wired how
Wiring(nodes) ==
    IF nodes = NoNodes THEN <<>> ELSE <<nodes.source, nodes.chain>>

\* C14: a tick constructs no source and no chain for a handle that has a
\* route already, and leaves the wiring of that route alone; a construction
\* that succeeds records the handle's source and, under the element's id, one
\* route wired source -> high-pass -> low-pass -> gain -> output, and the
\* routes under the other ids stay as they were.
C14_AttachOnce ==
    Ticked =>
        /\ \A h \in Handles :
              LET id == handles[h].elementId
              IN /\ (h \in before.audioSources /\ before.audioNodes[id] # NoNodes) =>
                       /\ "createSource" \notin did[h]
                       /\ "route" \notin did[h]
                       /\ attempts[h] = before.attempts[h]
                       /\ h \in audioSources
                       /\ Wiring(audioNodes[id]) = Wiring(before.audioNodes[id])
                 /\ "route" \in did[h] =>
                       /\ h \notin before.audioSources
                       /\ h \in audioSources
                       /\ attempts[h] = before.attempts[h] + 1
                       /\ before.audioNodes[id] = NoNodes
                       /\ Wiring(audioNodes[id]) =
                             <<h, <<"source", "hp", "lp", "gain", "destination">> >>
        /\ \A id \in Ids :
              Wiring(audioNodes[id]) # Wiring(before.audioNodes[id]) =>
                 \E h \in Handles : handles[h].elementId = id /\ "route" \in did[h]
        /\ audioSources \ before.audioSources \subseteq
              {h \in Handles : "createSource" \in did[h]}

\* a second tick on a handle whose route the first tick constructed: no
\* construction, the route is updated
C14_Witness ==
    /\ Ticked
    /\ tick.n = 2
    /\ \E h \in Handles :
          /\ h \in before.audioSources
          /\ before.attempts[h] = 1
          /\ attempts[h] = 1
          /\ "setGain" \in did[h]
          /\ "createSource" \notin did[h]

\* what is heard of a handle on the fallback path
Audible(el) == IF el.muted THEN 0 ELSE el.volume

\* C15: for an active element with a handle, the level a tick writes to the
\* gain of the route equals what the fallback path makes audible for the same
\* elements and time (0 when it writes muted = true, the written volume
\* otherwise), and the other way round, with one ducking source and factor.
C15_PathParity ==
    Ticked =>
        \A h \in Handles :
            LET element == ElementOf(h)
                direct == IF DirectMuted(element) THEN 0
                          ELSE DirectVolume(element, tick.t)
            IN (element # NoElement /\ "active" \in did[h]) =>
                  /\ "setGain" \in did[h] =>
                        /\ audioNodes[element.id].gain = direct
                        /\ audioNodes[element.id].gain =
                              Audible([muted |-> Coalesce(element.props.isMuted, FALSE),
                                       volume |-> FallbackVolume(element, elements, tick.t)])
                  /\ "setVolume" \in did[h] =>
                        /\ Audible(handles[h]) = direct
                        /\ Audible(handles[h]) = GraphVolume(element, elements, tick.t)

\* a ducked, unmuted clip on the fallback path, and the same on a route
C15_Witness ==
    /\ Ticked
    /\ \E h \in Handles :
          LET element == ElementOf(h)
          IN /\ element # NoElement
             /\ Duckers(element, tick.t) # {}
             /\ \/ "setVolume" \in did[h] /\ ~handles[h].muted
                   /\ handles[h].volume < BaseLevel(element)
                \/ "setGain" \in did[h] /\ audioNodes[element.id].gain = 0
                   /\ DirectMuted(element)

(***************************************************************************)
(* Claims about the resize gestures.                                       *)
(***************************************************************************)
\* the last event was a pointer move of a resize gesture, and it emitted an
\* update
Resized ==
    /\ pointer.type = "move"
    /\ isResizing /\ ~isDragging
    /\ resizeHandle # None
    /\ initialElementState # None
    /\ emitted # None

\* C16 (as stated): at rotation 0, a drag of the west handle by a horizontal
\* delta that keeps the width above the minimum leaves the east edge,
\* x + width, where it was when the gesture started.
C16_EastEdgeFixed ==
    (/\ Resized
     /\ resizeHandle = Some(<<"w">>)
     /\ initialElementState[1].r = 0
     /\ pointer.y = startMousePos.y
     /\ emitted[1].updates.width > 1000) =>
        emitted[1].updates.x + emitted[1].updates.width =
           initialElementState[1].x + initialElementState[1].w

\* C17: for an element rotated by 90 degrees, a drag of the east handle by d
\* pixels along screen +y changes the width as a drag of the east handle of
\* the same element unrotated by d pixels along +x does (by d as a percentage
\* of the container width, down to the minimum), leaves the height as it was,
\* leaves x as it was and moves y when d is not 0.
C17_RotatedEastResize ==
    (/\ Resized
     /\ resizeHandle = Some(<<"e">>)
     /\ initialElementState[1].r = 90
     /\ pointer.x = startMousePos.x) =>
        LET initial == initialElementState[1]
            d == pointer.y - startMousePos.y
            unrotated == Resize([initial EXCEPT !.r = 0], <<"e">>, d, 0)
            grown == initial.w + (d * 100000) \div Rect.width
            updates == emitted[1].updates
        IN /\ updates.width = unrotated.width
           /\ updates.width = IF grown < 1000 THEN 1000 ELSE grown
           /\ updates.height = initial.h
           /\ updates.x = initial.x
           /\ (d # 0) => (updates.y # initial.y)

\* the east handle of the element at 90 degrees, dragged 10 pixels down: the
\* width grows by 10 % of the container, y moves
C17_Witness ==
    /\ Resized
    /\ resizeHandle = Some(<<"e">>)
    /\ initialElementState[1].r = 90
    /\ pointer.x = startMousePos.x
    /\ pointer.y - startMousePos.y = 10
    /\ emitted[1].updates.width = initialElementState[1].w + 10000
    /\ emitted[1].updates.y > initialElementState[1].y

\* C18: every update a resize gesture emits, for any handle, rotation and
\* pointer delta, has width >= 1 and height >= 1 (percent).
C18_MinimumSize ==
    (/\ pointer.type = "move"
     /\ emitted # None
     /\ ~isDragging) =>
        /\ DOMAIN emitted[1].updates = {"x", "y", "width", "height"}
        /\ emitted[1].updates.width >= 1000
        /\ emitted[1].updates.height >= 1000

\* a corner handle dragged across the element: both sizes stop at the minimum
C18_Witness ==
    /\ Resized
    /\ initialElementState[1].w > 1000
    /\ initialElementState[1].h > 1000
    /\ initialElementState[1].r = 53
    /\ emitted[1].updates.width = 1000
    /\ emitted[1].updates.height = 1000

(***************************************************************************)
(* Claims about the transitions.                                           *)
(***************************************************************************)
\* the last render showed the clip; elapsed and remaining time at that render
Shown == shownAt # None /\ rendered # Null
Elapsed == shownAt[1] - clip.startTime
Remaining == (clip.startTime + clip.duration) - shownAt[1]

\* the render was inside the window of the transition-in, of the
\* transition-out
InActive ==
    /\ clip.transitionIn # Undefined
    /\ clip.transitionIn[1].type # "none"
    /\ Elapsed < clip.transitionIn[1].duration
OutActive ==
    /\ clip.transitionOut # Undefined
    /\ clip.transitionOut[1].type # "none"
    /\ Remaining < clip.transitionOut[1].duration

\* C19: with transitionIn = {fade, d} and no transition-out active, the
\* rendered opacity is elapsed / d while 0 <= elapsed < d and 1 once
\* elapsed >= d; for d = 1 s it is 0 at 0 s, 0.5 at 0.5 s and 1 at 1 s.
C19_FadeInBoundary ==
    (/\ Shown
     /\ clip.transitionIn # Undefined
     /\ clip.transitionIn[1].type = "fade"
     /\ ~OutActive) =>
        LET d == clip.transitionIn[1].duration
        IN /\ Elapsed >= 0
           /\ Elapsed < d => rendered.opacity * d = Elapsed * 10000
           /\ Elapsed >= d => rendered.opacity = 10000
           /\ d = 100 =>
                 /\ Elapsed = 0 => rendered.opacity = 0
                 /\ Elapsed = 50 => rendered.opacity = 5000
                 /\ Elapsed = 100 => rendered.opacity = 10000

\* a fade-in of 1 s, half way
C19_Witness ==
    /\ Shown
    /\ clip.transitionIn = Some(Transition("fade", 100))
    /\ ~OutActive
    /\ Elapsed = 50
    /\ rendered.opacity = 5000

\* a fade-in of 1 s on an element of 1 s, at its end: the window is closed
C19_Closed ==
    /\ Shown
    /\ clip.transitionIn = Some(Transition("fade", 100))
    /\ ~OutActive
    /\ Elapsed = 100
    /\ rendered.opacity = 10000

\* what each branch gives on its own
InAlone == TransitionIn(clip, Elapsed, NoTransition)
OutAlone == TransitionOut(clip, Remaining, NoTransition)
OutProgress == (Remaining * 10000) \div clip.transitionOut[1].duration

\* C20 (as stated): inside both windows, for every pair of types, the opacity
\* is the minimum of the in-opacity and the out-progress and the transform is
\* the one of the transition-out branch.
C20_Overlap ==
    (Shown /\ InActive /\ OutActive) =>
        /\ rendered.opacity =
              IF InAlone.transitionOpacity <= OutProgress
              THEN InAlone.transitionOpacity ELSE OutProgress
        /\ rendered.transitionTransform = OutAlone.transitionTransform

\* C20 (amended): inside both windows the opacity is the minimum of the
\* in-opacity and the out-progress when the transition-out is a fade, a
\* dissolve or a zoom, and the in-opacity when it is a wipe; the transform is
\* the one of the transition-out branch when the transition-out is a zoom or
\* a wipe, and the one of the transition-in branch when it is a fade or a
\* dissolve.
C20_OverlapByType ==
    (Shown /\ InActive /\ OutActive) =>
        LET out == clip.transitionOut[1].type
            fades == {"fade", "dissolve"}
            zooms == {"zoom-in", "zoom-out"}
        IN /\ out \in fades \cup zooms =>
                 rendered.opacity =
                    IF InAlone.transitionOpacity <= OutProgress
                    THEN InAlone.transitionOpacity ELSE OutProgress
           /\ out \notin fades \cup zooms =>
                 rendered.opacity = InAlone.transitionOpacity
           /\ out \notin fades =>
                 /\ rendered.transitionTransform = OutAlone.transitionTransform
                 /\ rendered.transitionTransform # <<>>
           /\ out \in fades =>
                 rendered.transitionTransform = InAlone.transitionTransform

\* a zoom-in still running while a fade-out has begun: the opacity is the
\* out-progress, the smaller one, and the scale of the zoom-in stays
C20_Witness ==
    /\ Shown /\ InActive /\ OutActive
    /\ clip.transitionIn[1].type = "zoom-in"
    /\ clip.transitionOut[1].type = "fade"
    /\ OutProgress < InAlone.transitionOpacity
    /\ rendered.opacity = OutProgress
    /\ rendered.transitionTransform = Css("scale", 5000 + InAlone.transitionOpacity \div 2)

(***************************************************************************)
(* Claims about the project store.                                         *)
(***************************************************************************)
\* the element holds a transient blob reference: a src that begins 'blob:'
HoldsBlob(el) ==
    /\ "src" \in DOMAIN el.props
    /\ Len(el.props.src) >= 5
    /\ el.props.src[1] = "b" /\ el.props.src[2] = "l" /\ el.props.src[3] = "o"
    /\ el.props.src[4] = "b" /\ el.props.src[5] = ":"

\* kept is what is stored of the element el
StoredAs(kept, el) ==
    IF HoldsBlob(el)
    THEN /\ kept.id = el.id
         /\ DOMAIN kept.props = DOMAIN el.props \ {"src"}
         /\ \A k \in DOMAIN kept.props : kept.props[k] = el.props[k]
    ELSE kept = el

\* kept is what is stored of the list els
StoredListAs(kept, els) ==
    /\ Len(kept) = Len(els)
    /\ \A i \in 1..Len(els) : StoredAs(kept[i], els[i])

\* C21: when a saveProjectState has completed, project_state holds one
\* record, under the key 'current', whose elements are the given elements
\* with the src removed from exactly those that hold a blob reference, and
\* whose tracks are the given tracks; the given list still holds every src; a
\* loadProjectState resolves to the elements and tracks stored by the most
\* recent save made before it, and to null when there was none.
C21_ProjectSnapshot ==
    /\ outcome.op = "save" =>
          /\ Cardinality(db.project) = 1
          /\ \A r \in db.project :
                /\ r.id = "current"
                /\ StoredListAs(r.elements, outcome.elements)
                /\ r.tracks = outcome.tracks
          /\ outcome.elements \in SavedElementLists
    /\ \A i \in 1..Len(transactions) :
          transactions[i].op = "save" =>
             /\ transactions[i].elements \in SavedElementLists
             /\ StoredListAs(transactions[i].projectData.elements,
                             transactions[i].elements)
    /\ outcome.op = "load" =>
          IF outcome.after = None THEN outcome.value = Null
          ELSE /\ outcome.value # Null
               /\ StoredListAs(outcome.value.elements, outcome.after[1].elements)
               /\ outcome.value.tracks = outcome.after[1].tracks

\* a load after two saves, the second of a remote and a blob source: the
\* remote src is there, the blob src is not
C21_Witness ==
    /\ outcome.op = "load"
    /\ storeCalls = 3
    /\ outcome.after =
          Some([elements |-> <<Sourced("e1", RemoteUrl), Sourced("e2", BlobUrl)>>,
                tracks |-> <<"t1">>])
    /\ outcome.value.elements = <<Sourced("e1", RemoteUrl), Plain("e2")>>
    /\ \E r \in db.project : r.updatedAt = 2

\* a load with nothing saved resolves to null
C21_Nothing ==
    /\ outcome.op = "load"
    /\ outcome.after = None
    /\ outcome.value = Null

(***************************************************************************)
(* Play and pause, ducking eligibility, filter cutoffs.                    *)
(***************************************************************************)
\* C22: in a tick, a handle of an element is told to play only if the
\* element is active and the play flag is set, and only if the handle was
\* paused; it is told to pause only if it was playing and the element is
\* inactive or the flag is not set; after the tick an active handle is paused
\* when the flag is not set and an inactive handle is paused; a handle in the
\* required state gets neither command.
C22_PlayPause ==
    Ticked =>
        \A h \in Handles :
            LET element == ElementOf(h)
                active == /\ element.startTime <= tick.t
                          /\ tick.t <= element.startTime + element.duration
                wasPaused == before.handles[h].paused
                required == IF active /\ tick.isPlaying THEN "playing" ELSE "paused"
            IN element # NoElement =>
                  /\ "play" \in did[h] <=> (required = "playing" /\ wasPaused)
                  /\ "pause" \in did[h] <=> (required = "paused" /\ ~wasPaused)
                  /\ required = "paused" => handles[h].paused
                  /\ (required = "playing") = wasPaused =>
                        handles[h].paused = ~wasPaused
                  /\ (required = "paused") = wasPaused =>
                        /\ "play" \notin did[h] /\ "pause" \notin did[h]
                        /\ handles[h].paused = wasPaused

\* a tick with the flag set on a handle that plays already: no command; and
\* a tick without the flag on one that plays: paused
C22_Witness ==
    /\ Ticked
    /\ \E h \in Handles :
          /\ ElementOf(h) # NoElement
          /\ "active" \in did[h]
          /\ tick.isPlaying
          /\ ~before.handles[h].paused
          /\ "play" \notin did[h]
          /\ ~handles[h].paused
    /\ \E h \in Handles :
          /\ ElementOf(h) # NoElement
          /\ "inactive" \in did[h]
          /\ tick.isPlaying
          /\ "pause" \in did[h]

\* the level a tick applied to the handle h, if it applied one: the gain of
\* the route, or the volume of the handle on the fallback path
Applied(h) ==
    IF "setGain" \in did[h] THEN Some(audioNodes[handles[h].elementId].gain)
    ELSE IF "setVolume" \in did[h] THEN Some(handles[h].volume)
    ELSE None

\* another element of kind audio or video with ducking = true is active at t
HasDucker(element, t) ==
    \E i \in 1..Len(elements) :
        /\ elements[i].id # element.id
        /\ elements[i].type = "audio" \/ elements[i].type = "video"
        /\ elements[i].props.ducking = Some(TRUE)
        /\ elements[i].startTime <= t /\ t <= elements[i].startTime + elements[i].duration

\* C23: the level a tick applies to an audible element is below its base
\* level (attenuated by a threshold) if and only if another element of kind
\* audio or video with ducking = true is active at the time of the tick;
\* without one the level is the base level, whatever the element's own
\* ducking flag, the duckers outside their windows and the elements of other
\* kinds.
C23_DuckingEligibility ==
    Ticked =>
        \A h \in Handles :
            LET element == ElementOf(h)
                base == IF "setGain" \in did[h] /\ element.props.isMuted = Some(TRUE)
                        THEN 0 ELSE BaseLevel(element)
            IN (element # NoElement /\ Applied(h) # None) =>
                  /\ ~HasDucker(element, tick.t) => Applied(h)[1] = base
                  /\ (HasDucker(element, tick.t) /\ base > 0) => Applied(h)[1] < base
                  /\ Applied(h)[1] <= base

\* clips a and b, both duckers, attenuate each other: a by the default
\* threshold of b, b by the threshold 0.5 of a
C23_Witness ==
    /\ Ticked
    /\ "setVolume" \in did[1] /\ "setVolume" \in did[2]
    /\ ElementOf(2).props.ducking = Some(TRUE)
    /\ handles[1].volume = (BaseLevel(ElementOf(1)) * 20) \div 100
    /\ handles[2].volume = (BaseLevel(ElementOf(2)) * 50) \div 100

\* clip a, itself a ducker, with the image c (ducking = true) and before d
\* begins: not attenuated
C23_Alone ==
    /\ Ticked
    /\ tick.t < 70
    /\ \E h \in Handles :
          /\ ElementOf(h) # NoElement
          /\ ElementOf(h).props.ducking = Some(TRUE)
          /\ Applied(h) = Some(BaseLevel(ElementOf(h)))

\* C26 (as stated): after a tick in which an active element has a route, the
\* high-pass cutoff of the route is the element's highPassFrequency, 0 only
\* when that is not set, and the low-pass cutoff is its lowPassFrequency,
\* 20000 only when that is not set, for every configured value, 0 included.
C26_FilterCutoffs ==
    Ticked =>
        \A h \in Handles :
            LET element == ElementOf(h)
            IN (/\ element # NoElement
                /\ "active" \in did[h]
                /\ audioNodes[element.id] # NoNodes) =>
                   /\ audioNodes[element.id].hp =
                         IF element.props.highPassFrequency = Undefined THEN 0
                         ELSE element.props.highPassFrequency[1]
                   /\ audioNodes[element.id].lp =
                         IF element.props.lowPassFrequency = Undefined THEN 20000
                         ELSE element.props.lowPassFrequency[1]

(***************************************************************************)
(* Claims about the gesture lifecycle and the drag.                        *)
(***************************************************************************)
\* the last event was a pointer move that made an onUpdateElement call
Updated == pointer.type = "move" /\ emitted # None

\* the pointer-down the last event follows, with the geometry of the element
\* at that moment in the shape the handlers keep it
Down == pointer.down[1]
DownGeometry ==
    [x |-> Down.box.x, y |-> Down.box.y, w |-> Down.box.width,
     h |-> Down.box.height, r |-> Down.box.rotation]

\* the update that follows from the pointer-down and the pointer's position
\* alone
FromDown ==
    IF Down.type = "elementDown"
    THEN Drag(DownGeometry, pointer.x - Down.x, pointer.y - Down.y)
    ELSE Resize(DownGeometry, Down.handle[1], pointer.x - Down.x, pointer.y - Down.y)

\* C24: a pointer move makes a geometry update only between a pointer-down
\* and the pointer-up that follows it; in a gesture of one pointer-down every
\* update is the one computed from the geometry at that pointer-down and the
\* pointer's displacement from where it went down, whatever moves came
\* before; after a pointer-up the gesture state is cleared.
C24_GestureLifecycle ==
    /\ Updated => pointer.held > 0
    /\ (Updated /\ pointer.held = 1) =>
          emitted[1] = [id |-> Down.box.id, updates |-> FromDown]
    /\ pointer.type = "up" =>
          /\ ~isDragging
          /\ ~isResizing
          /\ resizeHandle = None
          /\ initialElementState = None

\* an update of a move that follows an earlier move of the same gesture, away
\* from where the pointer went down
C24_Witness ==
    /\ Updated
    /\ pointer.held = 1
    /\ pointer.moves = 2
    /\ box # Down.box
    /\ pointer.x # Down.x

\* a move outside a gesture, after a gesture that moved the element
C24_Outside ==
    /\ pointer.type = "move"
    /\ pointer.held = 0
    /\ gestures > 0
    /\ box # NewBox(box.rotation)

\* C25: every update of a move gesture of one pointer-down sets just x and y,
\* to the position at pointer-down plus the pointer delta as a percentage of
\* the container's width and height, at every rotation of the element, and
\* leaves the element's width, height and rotation as they were.
C25_Drag ==
    (/\ Updated
     /\ pointer.held = 1
     /\ Down.type = "elementDown") =>
        LET updates == emitted[1].updates
        IN /\ DOMAIN updates = {"x", "y"}
           /\ updates.x * Rect.width =
                 (Down.box.x * Rect.width) + ((pointer.x - Down.x) * 100000)
           /\ updates.y * Rect.height =
                 (Down.box.y * Rect.height) + ((pointer.y - Down.y) * 100000)
           /\ box.x = updates.x
           /\ box.y = updates.y
           /\ box.width = Down.box.width
           /\ box.height = Down.box.height
           /\ box.rotation = Down.box.rotation

\* a drag of an element rotated by 90 degrees, by a delta along both axes
C25_Witness ==
    /\ Updated
    /\ pointer.held = 1
    /\ Down.type = "elementDown"
    /\ Down.box.rotation = 90
    /\ pointer.x - Down.x = 40
    /\ pointer.y - Down.y = 10

====
